---- MODULE Spec2Model ----
(***************************************************************************)
(* Model of the loophole tunnel supervisor                                 *)
(*   internal/app/loophole/loophole.go : setupCloseHandler,               *)
(*     parsePublicKey, handleClient, generateListener, Start              *)
(*   internal/pkg/token : IsTokenSaved, SaveToken, RefreshToken,           *)
(*     DeleteTokens, GetAccessToken, GetRefreshToken                      *)
(*   cmd : rootCmd (Args, Run), Execute                                    *)
(* The registration client (internal/pkg/client.RegisterSite) is not part  *)
(* of the sources at hand; its result is modelled from section 4.3 of the  *)
(* specification (site identifier + result code, 0/2xx meaning success).   *)
(***************************************************************************)
EXTENDS Integers, Sequences, FiniteSets, TLC

\* ---------------------------------------------------------------- bounds
\* EOF-triggered reconnects explored
MaxReconnects == 1
\* accepted public connections explored
MaxConns == 1
\* interrupt / termination signals delivered
MaxSignals == 1
\* characters of the port argument on the command line
MaxArgLen == 5
\* bytes written by the peers of the relayed connections, all streams together
MaxBytes == 2

\* ------------------------------------------------------ program constants
sshRetries == 5

\* ------------------------------------------------------------ value sets
SiteIDs      == {"a", "b"}
SuccessCodes == {0, 200}
FailureCodes == {400, 401, 403, 409, 500, 600, 601}
Identities   == {"missing", "invalid", "plain", "encrypted"}
\* tokens.json: whether the file exists, whether its content is a JSON
\* document, and the members of the document that the program reads
NoFile       == [present |-> FALSE, json |-> FALSE,
                 access_token |-> "", refresh_token |-> ""]
TokenFiles   == {NoFile} \cup
                [present : {TRUE}, json : {TRUE},
                 access_token : {"a1"}, refresh_token : {"r1"}]
ZeroSiteSpecs == [SiteID |-> "", ResultCode |-> 0]
\* a nil ssh.PublicKey / ssh.AuthMethod; a loaded one is named by the number
\* of the parsePublicKey call that produced it
NilKey == 0

VARIABLES
    config,                       \* lm.Config: the requested SiteID
    pc,                           \* position of the main task
    exited, exitCode, exitReason, \* os.Exit state of the process
    notified, hpc,                \* signal.Notify done; close-handler goroutine position
    sigDelivered, sigLost,        \* signals delivered / dropped by the runtime
    terminalState, echo,          \* package var terminalState; tty echo flag
    successfulConnectionOccured,  \* package var
    publicKey, publicKeyAuthMethod, fileReads, prompts,
    siteSpecs,                    \* Start's siteSpecs
    glSiteSpecs,                  \* generateListener's siteSpecs (by-value parameter)
    inReconnect, reconnects,      \* which call site of generateListener is active
    regCalls, refreshCalls,       \* RegisterSite / RefreshToken calls in the process
    regThisCall, refreshThisCall, \* ... in the current generateListener call
    firstRegCode, firstSiteID,    \* code of the first RegisterSite call; id of the first success
    tokenFile,                    \* tokens.json
    i, sshSuccess, dialAttempts, dialUser, dialAuth,
    sshClients, serverSSHConnHTTPS,
    listeners, glListener, listenerHTTPSOverSSH, listenThisCall,
    certManagers, proxyListeners, glProxyListener, proxiedEndpointHTTPS,
    lastAccept,                   \* outcome of the latest Accept
    relays,                       \* one record per accepted public connection
    thanked,                      \* what printFeedbackMessage printed
    streams,                      \* bytes of the relayed connections
    tokOp, lastSaved,             \* latest call of the token package; token of the latest SaveToken
    args, cmdpc, port             \* rootCmd: arguments, position, config.Port

vars == << config, pc, exited, exitCode, exitReason, notified, hpc,
           sigDelivered, sigLost, terminalState, echo,
           successfulConnectionOccured,
           publicKey, publicKeyAuthMethod, fileReads, prompts,
           siteSpecs, glSiteSpecs, inReconnect, reconnects,
           regCalls, refreshCalls, regThisCall, refreshThisCall,
           firstRegCode, firstSiteID,
           tokenFile, i, sshSuccess, dialAttempts, dialUser, dialAuth,
           sshClients, serverSSHConnHTTPS,
           listeners, glListener, listenerHTTPSOverSSH, listenThisCall,
           certManagers, proxyListeners, glProxyListener, proxiedEndpointHTTPS,
           lastAccept, relays, thanked, streams, tokOp, lastSaved,
           args, cmdpc, port >>

\* groups used in UNCHANGED clauses
procVars   == << exited, exitCode, exitReason >>
sigVars    == << notified, hpc, sigDelivered, sigLost >>
ttyVars    == << terminalState, echo >>
keyVars    == << publicKey, publicKeyAuthMethod, fileReads, prompts >>
regVars    == << glSiteSpecs, regCalls, refreshCalls, regThisCall,
                 refreshThisCall, firstRegCode, firstSiteID, tokenFile >>
dialVars   == << i, sshSuccess, dialAttempts, dialUser, dialAuth, sshClients,
                 serverSSHConnHTTPS >>
localVars  == << certManagers, proxyListeners, glProxyListener >>
startVars  == << siteSpecs, inReconnect, reconnects, listenerHTTPSOverSSH,
                 proxiedEndpointHTTPS >>
listenVars == << listeners, glListener, listenThisCall >>
acceptVars == << successfulConnectionOccured, lastAccept, relays >>
\* variables the tunnel supervisor does not write
sideVars   == << streams, tokOp, lastSaved, args, cmdpc, port >>

\* ------------------------------------------------------------ command line
\* characters an argument is made of
Chars  == {"-", "0", "7", "x"}
Digits == {"0", "7"}
DigitValue(c) == IF c = "7" THEN 7 ELSE 0

\* strings of at most n characters
Strings(n) == UNION {[1..m -> Chars] : m \in 0..n}

\* the command lines explored: no argument, or one port argument
CommandLines == {<< >>} \cup {<< s >> : s \in Strings(MaxArgLen)}

\* the command line of the runs in which loophole.Start is entered directly
StartedArgs == << << "7" >> >>

\* the digits of a decimal number, most significant first
RECURSIVE ParseUint(_)
ParseUint(s) ==
    IF s = << >> THEN 0
    ELSE ParseUint(SubSeq(s, 1, Len(s) - 1)) * 10 + DigitValue(s[Len(s)])

\* strconv.ParseInt(s, 10, 32): optional sign, decimal digits, value in the
\* range of int32; err is "nil", "syntax" or "range"
ParseInt(s) ==
    LET signed == s # << >> /\ s[1] \in {"+", "-"}
        neg    == s # << >> /\ s[1] = "-"
        body   == IF signed THEN Tail(s) ELSE s
        v      == ParseUint(body)
    IN  IF body = << >> \/ \E n \in 1..Len(body) : body[n] \notin Digits
        THEN [err |-> "syntax", value |-> 0]
        ELSE IF ~neg /\ v > 2147483647
        THEN [err |-> "range", value |-> 2147483647]
        ELSE IF neg /\ v - 1 > 2147483647
        THEN [err |-> "range", value |-> -2147483647 - 1]
        ELSE [err |-> "nil", value |-> IF neg THEN -v ELSE v]

\* rootCmd.Args, lines 439-448: "" when the arguments are accepted
ValidateArgs(a) ==
    IF Len(a) < 1 THEN "Missing argument: port"
    ELSE IF ParseInt(a[1]).err # "nil" THEN "Invalid argument: port"
    ELSE ""

\* ------------------------------------------------------------- initial state
\* no call of the token package has been made
NoOp == [op |-> "none", arg |-> << >>, prev |-> NoFile, prevSaved |-> << >>,
         resp |-> << >>, err |-> "nil", out |-> ""]

\* no byte has been written on, read from or delivered to a connection
NoBytes == [written |-> << >>, pending |-> << >>, buf |-> << >>,
            delivered |-> << >>]
NoStreams == [k \in 1..MaxConns |-> [c2l |-> NoBytes, l2c |-> NoBytes]]

\* the process at the entry of loophole.Start, but for pc and tokenFile
InitProcess ==
    /\ config \in [SiteID : {"", "a"}]
    /\ exited = FALSE /\ exitCode = 0 /\ exitReason = "none"
    /\ notified = FALSE /\ hpc = "none"
    /\ sigDelivered = 0 /\ sigLost = 0
    /\ terminalState = "nil" /\ echo = TRUE
    /\ successfulConnectionOccured = FALSE
    /\ publicKey = NilKey /\ publicKeyAuthMethod = NilKey
    /\ fileReads = 0 /\ prompts = 0
    /\ siteSpecs = ZeroSiteSpecs /\ glSiteSpecs = ZeroSiteSpecs
    /\ inReconnect = FALSE /\ reconnects = 0
    /\ regCalls = 0 /\ refreshCalls = 0
    /\ regThisCall = 0 /\ refreshThisCall = 0
    /\ firstRegCode = -1 /\ firstSiteID = "none"
    /\ i = 0 /\ sshSuccess = FALSE /\ dialAttempts = 0
    /\ dialUser = "none" /\ dialAuth = NilKey
    /\ sshClients = << >> /\ serverSSHConnHTTPS = 0
    /\ listeners = << >> /\ glListener = 0 /\ listenerHTTPSOverSSH = 0
    /\ listenThisCall = 0
    /\ certManagers = << >> /\ proxyListeners = << >> /\ glProxyListener = 0
    /\ proxiedEndpointHTTPS = 0
    /\ lastAccept = "none"
    /\ relays = << >>
    /\ thanked = "none"
    /\ streams = NoStreams
    /\ tokOp = NoOp /\ lastSaved = << >>

\* loophole.Start has just been called by rootCmd.Run
Init ==
    /\ InitProcess
    /\ pc = "start"
    /\ tokenFile \in TokenFiles
    /\ args = StartedArgs /\ cmdpc = "started"
    /\ port = ParseInt(StartedArgs[1]).value

\* log.Fatal(): os.Exit(1)
Fatal(reason) ==
    /\ exited' = TRUE
    /\ exitCode' = 1
    /\ exitReason' = reason

\* The locals of generateListener outside a call (zero values)
LocalsCleared ==
    /\ regThisCall' = 0 /\ refreshThisCall' = 0
    /\ i' = 0 /\ sshSuccess' = FALSE /\ dialAttempts' = 0
    /\ serverSSHConnHTTPS' = 0
    /\ glListener' = 0 /\ listenThisCall' = 0
    /\ glProxyListener' = 0

\* Entry of generateListener(config, publicKeyAuthMethod, publicKey, siteSpecs):
\* siteSpecs is passed by value, every local starts from its zero value.
CallGenerateListener ==
    /\ glSiteSpecs' = siteSpecs
    /\ LocalsCleared
    /\ pc' = "checkKey"

\* Start, lines 371-379: install the close handler (signal.Notify on an
\* unbuffered channel, then the goroutine is spawned), then the first call of
\* generateListener with the zero-valued siteSpecs.
Start ==
    /\ ~exited /\ pc = "start"
    /\ notified' = TRUE
    /\ hpc' = "spawned"
    /\ CallGenerateListener
    /\ UNCHANGED << config, sideVars, thanked,
                    procVars, sigDelivered, sigLost, ttyVars,
                    keyVars, startVars, regCalls, refreshCalls,
                    firstRegCode, firstSiteID, tokenFile,
                    dialUser, dialAuth, sshClients, listeners,
                    certManagers, proxyListeners, acceptVars >>

\* (variant: the identity is loaded on every call of generateListener)
NeedsKeyLoad_always(pk) == TRUE

\* generateListener line 177: the identity is loaded only while *publicKey is nil
NeedsKeyLoad(pk) == pk = NilKey

CheckKey ==
    /\ ~exited /\ pc = "checkKey"
    /\ pc' = IF NeedsKeyLoad(publicKey) THEN "parsePublicKey" ELSE "register"
    /\ UNCHANGED << config, sideVars, thanked,
                    procVars, sigVars, ttyVars, keyVars, regVars,
                    dialVars, localVars, startVars, listenVars, acceptVars >>

\* parsePublicKey lines 59-74 (and the fatal of line 180 on an error return):
\* read the file, try to parse it, and on a passphrase-protected key print the
\* prompt and save the terminal state.
ParsePublicKey ==
    /\ ~exited /\ pc = "parsePublicKey"
    /\ fileReads' = fileReads + 1
    /\ \E file \in Identities :
       \/ /\ file \in {"missing", "invalid"}
          /\ Fatal("identity")
          /\ UNCHANGED << pc, publicKey, publicKeyAuthMethod, prompts, ttyVars >>
       \/ /\ file = "plain"
          /\ publicKey' = fileReads + 1
          /\ publicKeyAuthMethod' = fileReads + 1
          /\ pc' = "register"
          /\ UNCHANGED << procVars, prompts, ttyVars >>
       \/ /\ file = "encrypted"
          /\ prompts' = prompts + 1
          /\ \/ /\ terminalState' = "saved"          \* terminal.GetState ok
                /\ pc' = "readPassword"
                /\ UNCHANGED << procVars, echo >>
             \/ /\ terminalState' = "nil"            \* GetState failed
                /\ Fatal("identity")
                /\ UNCHANGED << pc, echo >>
          /\ UNCHANGED << publicKey, publicKeyAuthMethod >>
    /\ UNCHANGED << config, sideVars, thanked,
                    sigVars, regVars, dialVars, localVars, startVars,
                    listenVars, acceptVars >>

\* terminal.ReadPassword, line 76: echo is switched off while the call blocks
ReadPasswordBegin ==
    /\ ~exited /\ pc = "readPassword"
    /\ echo' = FALSE
    /\ pc' = "reading"
    /\ UNCHANGED << config, sideVars, thanked,
                    procVars, sigVars, terminalState, keyVars, regVars,
                    dialVars, localVars, startVars, listenVars, acceptVars >>

\* ... and switched on again when it returns
ReadPasswordEnd ==
    /\ ~exited /\ pc = "reading"
    /\ echo' = TRUE
    /\ pc' = "parseWithPassphrase"
    /\ UNCHANGED << config, sideVars, thanked,
                    procVars, sigVars, terminalState, keyVars, regVars,
                    dialVars, localVars, startVars, listenVars, acceptVars >>

\* parsePublicKey lines 78-90: forget the terminal state, parse with the passphrase
ParseWithPassphrase ==
    /\ ~exited /\ pc = "parseWithPassphrase"
    /\ terminalState' = "nil"
    /\ \/ /\ publicKey' = fileReads /\ publicKeyAuthMethod' = fileReads
          /\ pc' = "register"
          /\ UNCHANGED procVars
       \/ /\ Fatal("identity")                       \* wrong passphrase
          /\ UNCHANGED << pc, publicKey, publicKeyAuthMethod >>
    /\ UNCHANGED << config, sideVars, thanked,
                    sigVars, echo, fileReads, prompts, regVars,
                    dialVars, localVars, startVars, listenVars, acceptVars >>

\* ------------------------------------------------------------ token store
\* responses of the token endpoint to RefreshToken, with the outcome of the
\* write of tokens.json that follows a 2xx response
WriteOutcomes == {"ok", "open", "partial"}
Responses ==
    [kind : {"neterr"}, status : {0}, json : {FALSE}, error : {""},
     access : {""}, refresh : {""}, write : {"ok"}]
    \cup
    [kind : {"http"}, status : {200, 300, 301, 400, 401, 499, 500},
     json : BOOLEAN, error : {"", "expired_token", "invalid_grand",
                              "access_denied", "invalid_grant"},
     access : {"a2"}, refresh : {"", "r2"}, write : WriteOutcomes]

\* json.Marshal of a TokenSpec, lines 55-61 and 77: one member per field,
\* named by the field's tag
Marshal(token) ==
    [present |-> TRUE, json |-> TRUE,
     access_token |-> token.AccessToken,
     refresh_token |-> token.RefreshToken]

\* a file that was truncated and not written to the end
Truncated == [present |-> TRUE, json |-> FALSE,
              access_token |-> "", refresh_token |-> ""]

\* ioutil.ReadFile and json.Unmarshal into a TokenSpec, lines 244-252
Unmarshal(file) ==
    IF ~file.present THEN [err |-> "read", token |-> << >>]
    ELSE IF ~file.json THEN [err |-> "decode", token |-> << >>]
    ELSE [err |-> "nil",
          token |-> << [AccessToken |-> file.access_token,
                        RefreshToken |-> file.refresh_token] >>]

\* SaveToken, lines 74-86: marshal and overwrite tokens.json.  ioutil.WriteFile
\* truncates the file when it opens it: a write that fails after the open
\* leaves a file that is no JSON document.
SaveToken(file, token, write) ==
    IF write = "ok" THEN [err |-> "nil", file |-> Marshal(token)]
    ELSE IF write = "open" THEN [err |-> "write", file |-> file]
    ELSE [err |-> "write", file |-> Truncated]

\* (variant: the access token is read from the wrong member)
GetAccessToken_refresh(file) ==
    LET u == Unmarshal(file) IN
    IF u.err # "nil" THEN [err |-> u.err, token |-> ""]
                     ELSE [err |-> "nil", token |-> u.token[1].RefreshToken]

\* GetAccessToken, lines 241-254
GetAccessToken(file) ==
    LET u == Unmarshal(file) IN
    IF u.err # "nil" THEN [err |-> u.err, token |-> ""]
                     ELSE [err |-> "nil", token |-> u.token[1].AccessToken]

\* GetRefreshToken, lines 256-269
GetRefreshToken(file) ==
    LET u == Unmarshal(file) IN
    IF u.err # "nil" THEN [err |-> u.err, token |-> ""]
                     ELSE [err |-> "nil", token |-> u.token[1].RefreshToken]

\* (variant: the refresh token of the response is the one stored)
MergedRefreshToken_issued(token, issued) == issued

\* RefreshToken line 218: the refresh token sent is put into the response
MergedRefreshToken(token, issued) == token

\* RefreshToken, lines 176-230
RefreshToken(file, resp) ==
    LET got == GetRefreshToken(file) IN
    IF got.err # "nil" THEN [err |-> got.err, file |-> file]
    ELSE IF resp.kind = "neterr" THEN [err |-> "transport", file |-> file]
    ELSE IF resp.status > 400 /\ resp.status < 500 THEN
        IF ~resp.json THEN [err |-> "decode", file |-> file]
        ELSE IF resp.error \in {"expired_token", "invalid_grand"}
             THEN [err |-> "expired", file |-> file]
        ELSE IF resp.error = "access_denied"
             THEN [err |-> "denied", file |-> file]
        ELSE [err |-> "nil", file |-> file]
    ELSE IF resp.status >= 200 /\ resp.status <= 300 THEN
        IF ~resp.json THEN [err |-> "decode", file |-> file]
        ELSE SaveToken(file,
                       [AccessToken |-> resp.access,
                        RefreshToken |->
                            MergedRefreshToken(got.token, resp.refresh)],
                       resp.write)
    ELSE [err |-> "unexpected", file |-> file]

\* IsTokenSaved, lines 63-72: statOk is false when os.Stat fails for another
\* reason than the absence of the file
IsTokenSaved(file, statOk) ==
    IF ~file.present THEN [fatal |-> FALSE, saved |-> "false"]
    ELSE IF ~statOk THEN [fatal |-> TRUE, saved |-> ""]
    ELSE [fatal |-> FALSE, saved |-> "true"]

\* DeleteTokens, lines 232-239: os.Remove reports the absence of the file as
\* an error like any other; removeOk is false when an existing file cannot be
\* removed
DeleteTokens(file, removeOk) ==
    IF ~file.present THEN [fatal |-> TRUE, file |-> file]
    ELSE IF ~removeOk THEN [fatal |-> TRUE, file |-> file]
    ELSE [fatal |-> FALSE, file |-> NoFile]

\* ----------------------------------------------------------- registration
\* client.RegisterSite: not in the sources at hand; from sections 4.3, 6 and 7
\* of the specification it sends the bearer token of tokens.json and returns a
\* SiteSpecification and an error, the result code 0 or 2xx meaning success and
\* 600/601 that no token could be read; a requested site identifier is the
\* one assigned.
RegisterSite(requested, file) ==
    IF ~file.present \/ ~file.json
    THEN [SiteID : {""}, ResultCode : {600}, err : {TRUE}]
    ELSE [SiteID : IF requested = "" THEN SiteIDs ELSE {requested},
          ResultCode : SuccessCodes, err : {FALSE}]
         \cup
         [SiteID : {""}, ResultCode : FailureCodes, err : {TRUE}]

\* generateListener line 189: "checking whether siteSpecs has been used yet"
SiteSpecsUsed(specs) == specs.ResultCode # 0

\* (variant: a 403 is sent down the token-refresh path like a 401)
RegisterErrorAction_403(code) ==
    IF code = 400 THEN "fatalHostname"
    ELSE IF code = 401 \/ code = 403 THEN "refresh"
    ELSE IF code = 409 THEN "fatalTaken"
    ELSE IF code = 600 \/ code = 601 THEN "fatalLogin"
    ELSE "fatalUnexpected"

\* generateListener lines 195-231: what the supervisor does with a failed registration
RegisterErrorAction(code) ==
    IF code = 400 THEN "fatalHostname"
    ELSE IF code = 401 THEN "refresh"
    ELSE IF code = 403 THEN "fatalPermission"
    ELSE IF code = 409 THEN "fatalTaken"
    ELSE IF code = 600 \/ code = 601 THEN "fatalLogin"
    ELSE "fatalUnexpected"

\* generateListener lines 189-233, up to the first RegisterSite call
Register ==
    /\ ~exited /\ pc = "register"
    /\ IF SiteSpecsUsed(glSiteSpecs)
       THEN /\ pc' = "dial"
            /\ UNCHANGED << procVars, regVars >>
       ELSE \E r \in RegisterSite(config.SiteID, tokenFile) :
            /\ regCalls' = regCalls + 1
            /\ regThisCall' = regThisCall + 1
            /\ firstRegCode' = IF regCalls = 0 THEN r.ResultCode ELSE firstRegCode
            /\ glSiteSpecs' = [SiteID |-> r.SiteID, ResultCode |-> r.ResultCode]
            /\ IF ~r.err
               THEN /\ pc' = "dial"
                    /\ firstSiteID' = IF firstSiteID = "none" THEN r.SiteID
                                      ELSE firstSiteID
                    /\ UNCHANGED procVars
               ELSE /\ UNCHANGED firstSiteID
                    /\ IF RegisterErrorAction(r.ResultCode) = "refresh"
                       THEN pc' = "refresh" /\ UNCHANGED procVars
                       ELSE Fatal(RegisterErrorAction(r.ResultCode)) /\ UNCHANGED pc
            /\ UNCHANGED << refreshCalls, refreshThisCall, tokenFile >>
    /\ UNCHANGED << config, sideVars, thanked,
                    sigVars, ttyVars, keyVars, dialVars, localVars,
                    startVars, listenVars, acceptVars >>

\* generateListener lines 210-213: token.RefreshToken()
Refresh ==
    /\ ~exited /\ pc = "refresh"
    /\ refreshCalls' = refreshCalls + 1
    /\ refreshThisCall' = refreshThisCall + 1
    /\ \E resp \in Responses :
         LET r == RefreshToken(tokenFile, resp) IN
         /\ tokenFile' = r.file
         /\ IF r.err # "nil"
            THEN Fatal("refresh") /\ UNCHANGED pc
            ELSE pc' = "reregister" /\ UNCHANGED procVars
    /\ UNCHANGED << config, sideVars, thanked,
                    sigVars, ttyVars, keyVars, glSiteSpecs, regCalls,
                    regThisCall, firstRegCode, firstSiteID, dialVars, localVars,
                    startVars, listenVars, acceptVars >>

\* generateListener lines 214-218: the one retry of RegisterSite
Reregister ==
    /\ ~exited /\ pc = "reregister"
    /\ \E r \in RegisterSite(config.SiteID, tokenFile) :
         /\ regCalls' = regCalls + 1
         /\ regThisCall' = regThisCall + 1
         /\ glSiteSpecs' = [SiteID |-> r.SiteID, ResultCode |-> r.ResultCode]
         /\ IF r.err
            THEN Fatal("reregister") /\ UNCHANGED << pc, firstSiteID >>
            ELSE /\ pc' = "dial"
                 /\ firstSiteID' = IF firstSiteID = "none" THEN r.SiteID
                                   ELSE firstSiteID
                 /\ UNCHANGED procVars
    /\ UNCHANGED << config, sideVars, thanked,
                    sigVars, ttyVars, keyVars, refreshCalls,
                    refreshThisCall, firstRegCode, tokenFile, dialVars,
                    localVars, startVars, listenVars, acceptVars >>

\* ------------------------------------------------------------ gateway dial
\* (variant: off by one, a sixth attempt is made)
DialLoopContinues_offByOne(n, success) == n <= sshRetries /\ ~success

\* generateListener line 252: the condition of the retry loop
DialLoopContinues(n, success) == n < sshRetries /\ ~success

\* generateListener lines 236-261: one ssh.Dial with User = siteSpecs.SiteID
\* and Auth = *publicKeyAuthMethod; a success leaves the loop
Dial ==
    /\ ~exited /\ pc = "dial"
    /\ dialAttempts' = dialAttempts + 1
    /\ dialUser' = glSiteSpecs.SiteID
    /\ dialAuth' = publicKeyAuthMethod
    /\ \/ /\ sshClients' = Append(sshClients, "open")
          /\ serverSSHConnHTTPS' = Len(sshClients) + 1
          /\ sshSuccess' = TRUE
          /\ i' = i + 1
          /\ pc' = "buildProxy"
       \/ /\ pc' = "sleep"
          /\ UNCHANGED << sshClients, serverSSHConnHTTPS, sshSuccess, i >>
    /\ UNCHANGED << config, sideVars, thanked,
                    procVars, sigVars, ttyVars, keyVars, regVars,
                    localVars, startVars, listenVars, acceptVars >>

\* generateListener lines 256-258 and the loop header: the 10 second sleep
\* ends, i++ and the loop condition is evaluated again
Sleep ==
    /\ ~exited /\ pc = "sleep"
    /\ i' = i + 1
    /\ pc' = IF DialLoopContinues(i + 1, sshSuccess) THEN "dial" ELSE "dialFailed"
    /\ UNCHANGED << config, sideVars, thanked,
                    procVars, sigVars, ttyVars, keyVars, regVars,
                    sshSuccess, dialAttempts, dialUser, dialAuth, sshClients,
                    serverSSHConnHTTPS, localVars, startVars, listenVars,
                    acceptVars >>

\* generateListener lines 263-266
DialFailed ==
    /\ ~exited /\ pc = "dialFailed"
    /\ Fatal("dial")
    /\ UNCHANGED << config, sideVars, thanked,
                    pc, sigVars, ttyVars, keyVars, regVars, dialVars,
                    localVars, startVars, listenVars, acceptVars >>

\* ------------------------------------------------- local proxy and listener
\* generateListener lines 273-323: a certificate manager for the site, the
\* reverse proxy, its server and a listener on ":0", served on a new task
BuildProxy ==
    /\ ~exited /\ pc = "buildProxy"
    /\ certManagers' = Append(certManagers, glSiteSpecs.SiteID)
    /\ \/ /\ proxyListeners' = Append(proxyListeners,
                                 [site |-> glSiteSpecs.SiteID, status |-> "open"])
          /\ glProxyListener' = Len(proxyListeners) + 1
          /\ pc' = "listen"
          /\ UNCHANGED procVars
       \/ /\ Fatal("proxyListen")
          /\ UNCHANGED << pc, proxyListeners, glProxyListener >>
    /\ UNCHANGED << config, sideVars, thanked,
                    sigVars, ttyVars, keyVars, regVars, dialVars,
                    startVars, listenVars, acceptVars >>

\* generateListener lines 317-323: ServeTLS of some proxy server returns an error
ServeTLSFails ==
    /\ ~exited
    /\ \E p \in 1..Len(proxyListeners) : proxyListeners[p].status = "open"
    /\ Fatal("serveTLS")
    /\ UNCHANGED << config, sideVars, thanked,
                    pc, sigVars, ttyVars, keyVars, regVars, dialVars,
                    localVars, startVars, listenVars, acceptVars >>

\* generateListener lines 327-331: serverSSHConnHTTPS.Listen on the remote endpoint
RemoteListen ==
    /\ ~exited /\ pc = "listen"
    /\ listenThisCall' = listenThisCall + 1
    /\ \/ /\ listeners' = Append(listeners,
                            [client |-> serverSSHConnHTTPS, status |-> "open"])
          /\ glListener' = Len(listeners) + 1
          /\ pc' = "return"
          /\ UNCHANGED procVars
       \/ /\ Fatal("remoteListen")
          /\ UNCHANGED << pc, listeners, glListener >>
    /\ UNCHANGED << config, sideVars, thanked,
                    sigVars, ttyVars, keyVars, regVars, dialVars,
                    localVars, startVars, acceptVars >>

\* generateListener lines 339-367 and the assignment at the call site:
\* line 379 keeps all three results, line 387 keeps the listener only; the
\* locals of the call are gone
Return ==
    /\ ~exited /\ pc = "return"
    /\ listenerHTTPSOverSSH' = glListener
    /\ IF inReconnect
       THEN UNCHANGED << proxiedEndpointHTTPS, siteSpecs >>
       ELSE /\ proxiedEndpointHTTPS' = glProxyListener
            /\ siteSpecs' = glSiteSpecs
    /\ glSiteSpecs' = ZeroSiteSpecs
    /\ LocalsCleared
    /\ pc' = "accept"
    /\ UNCHANGED << config, sideVars, thanked,
                    procVars, sigVars, ttyVars, keyVars, regCalls,
                    refreshCalls, firstRegCode, firstSiteID, tokenFile,
                    dialUser, dialAuth, sshClients, certManagers,
                    proxyListeners, inReconnect, reconnects, listeners,
                    acceptVars >>

\* ------------------------------------------------------------- accept loop
NewRelay == [stage |-> "dial", target |-> 0, clientOpen |-> TRUE,
             localOpen |-> FALSE, l2c |-> "idle", c2l |-> "idle"]

\* Start lines 383-385: Accept returns io.EOF, the gateway transport is gone
AcceptEOF ==
    /\ ~exited /\ pc = "accept"
    /\ reconnects < MaxReconnects
    /\ sshClients' = [sshClients EXCEPT
                        ![listeners[listenerHTTPSOverSSH].client] = "dropped"]
    /\ lastAccept' = "eof"
    /\ pc' = "reconnect"
    /\ UNCHANGED << config, sideVars, thanked,
                    procVars, sigVars, ttyVars, keyVars, regVars,
                    i, sshSuccess, dialAttempts, dialUser, dialAuth,
                    serverSSHConnHTTPS, localVars, startVars, listenVars,
                    successfulConnectionOccured, relays >>

\* (variant: the flag is set before the error of Accept is looked at)
AcceptError_flag ==
    /\ ~exited /\ pc = "accept"
    /\ lastAccept' = "error"
    /\ successfulConnectionOccured' = TRUE
    /\ UNCHANGED << config, sideVars, thanked, pc, procVars, sigVars, ttyVars,
                    keyVars, regVars, dialVars, localVars, startVars,
                    listenVars, relays >>

\* Start lines 389-391: any other error is logged, the loop continues
AcceptError ==
    /\ ~exited /\ pc = "accept"
    /\ lastAccept' = "error"
    /\ UNCHANGED << config, sideVars, thanked,
                    pc, procVars, sigVars, ttyVars, keyVars, regVars,
                    dialVars, localVars, startVars, listenVars,
                    successfulConnectionOccured, relays >>

\* Start lines 393-405: a connection was accepted, its relay task is started
AcceptConn ==
    /\ ~exited /\ pc = "accept"
    /\ Len(relays) < MaxConns
    /\ lastAccept' = "conn"
    /\ successfulConnectionOccured' = TRUE
    /\ relays' = Append(relays, NewRelay)
    /\ UNCHANGED << config, sideVars, thanked,
                    pc, procVars, sigVars, ttyVars, keyVars, regVars,
                    dialVars, localVars, startVars, listenVars >>

\* Start lines 386-387: close the old remote listener, call generateListener
\* again with Start's siteSpecs
Reconnect ==
    /\ ~exited /\ pc = "reconnect"
    /\ listeners' = [listeners EXCEPT ![listenerHTTPSOverSSH].status = "closed"]
    /\ inReconnect' = TRUE
    /\ reconnects' = reconnects + 1
    /\ CallGenerateListener
    /\ UNCHANGED << config, sideVars, thanked,
                    procVars, sigVars, ttyVars, keyVars, siteSpecs,
                    listenerHTTPSOverSSH, proxiedEndpointHTTPS,
                    regCalls, refreshCalls, firstRegCode, firstSiteID,
                    tokenFile, dialUser, dialAuth, sshClients, certManagers,
                    proxyListeners, acceptVars >>

\* ------------------------------------------------------------------- relay
\* Start lines 394-404 and handleClient lines 96-120: the relay task dials
\* the proxied endpoint, then handleClient starts the two copy tasks
RelayDials(k) ==
    /\ ~exited /\ relays[k].stage = "dial"
    /\ relays' = [relays EXCEPT ![k] =
                    [@ EXCEPT !.stage = "relaying",
                              !.target = proxiedEndpointHTTPS,
                              !.localOpen = TRUE,
                              !.l2c = "copying", !.c2l = "copying"]]
    /\ UNCHANGED << config, sideVars, thanked,
                    pc, procVars, sigVars, ttyVars, keyVars, regVars,
                    dialVars, localVars, startVars, listenVars,
                    successfulConnectionOccured, lastAccept >>

\* Start lines 397-400: the dial of the proxied endpoint fails
RelayDialFails(k) ==
    /\ ~exited /\ relays[k].stage = "dial"
    /\ Fatal("localDial")
    /\ UNCHANGED << config, sideVars, thanked,
                    pc, sigVars, ttyVars, keyVars, regVars, dialVars,
                    localVars, startVars, listenVars, acceptVars >>

\* handleClient lines 102-108 / 113-119: io.Copy of one direction returns
\* (EOF or error) and the task goes on to send on chDone
CopyReturns(k, dir) ==
    /\ ~exited /\ relays[k][dir] = "copying"
    /\ relays' = [relays EXCEPT ![k][dir] = "sending"]
    /\ UNCHANGED << config, sideVars, thanked,
                    pc, procVars, sigVars, ttyVars, keyVars, regVars,
                    dialVars, localVars, startVars, listenVars,
                    successfulConnectionOccured, lastAccept >>

\* connections closed by the deferred calls when handleClient returns (line 97)
ClosedOnReturn(r) == [r EXCEPT !.clientOpen = FALSE]

\* handleClient line 122 and the deferred calls: one value is received from
\* the unbuffered chDone, then the function returns
HandleClientReturns(k, dir) ==
    /\ ~exited /\ relays[k].stage = "relaying"
    /\ relays[k][dir] = "sending"
    /\ relays' = [relays EXCEPT ![k] =
                    ClosedOnReturn([@ EXCEPT !.stage = "returned",
                                             ![dir] = "done"])]
    /\ UNCHANGED << config, sideVars, thanked,
                    pc, procVars, sigVars, ttyVars, keyVars, regVars,
                    dialVars, localVars, startVars, listenVars,
                    successfulConnectionOccured, lastAccept >>

\* ----------------------------------------------------------- close handler
\* setupCloseHandler line 49: the handler task reaches the receive on c
HandlerWaits ==
    /\ ~exited /\ hpc = "spawned"
    /\ hpc' = "waiting"
    /\ UNCHANGED << config, sideVars, thanked,
                    pc, procVars, notified, sigDelivered, sigLost,
                    ttyVars, keyVars, regVars, dialVars, localVars, startVars,
                    listenVars, acceptVars >>

\* A signal is delivered to the process after signal.Notify (line 47).  The
\* runtime does a non-blocking send on c, which has no buffer (line 46): the
\* signal is received only if the handler task is blocked in the receive.
Signal ==
    /\ ~exited /\ notified
    /\ sigDelivered < MaxSignals
    /\ sigDelivered' = sigDelivered + 1
    /\ hpc' = IF hpc = "waiting" THEN "received" ELSE hpc
    /\ sigLost' = IF hpc = "spawned" THEN sigLost + 1 ELSE sigLost
    /\ UNCHANGED << config, sideVars, thanked,
                    pc, procVars, notified, ttyVars, keyVars, regVars,
                    dialVars, localVars, startVars, listenVars, acceptVars >>

\* setupCloseHandler line 50: the test of terminalState
HandlerChecks ==
    /\ ~exited /\ hpc = "received"
    /\ hpc' = IF terminalState # "nil" THEN "restore" ELSE "feedback"
    /\ UNCHANGED << config, sideVars, thanked, pc, procVars, notified,
                    sigDelivered, sigLost, ttyVars, keyVars, regVars,
                    dialVars, localVars, startVars, listenVars, acceptVars >>

\* setupCloseHandler line 51: terminal.Restore(fd, terminalState).  The
\* variable is read a second time without synchronisation with the main
\* task: when the main task has cleared it since the test, the call either
\* dereferences the nil pointer (run-time panic, exit status 2) or works on
\* the pointer loaded by the test.
HandlerRestores ==
    /\ ~exited /\ hpc = "restore"
    /\ \/ /\ echo' = TRUE
          /\ hpc' = "feedback"
          /\ UNCHANGED procVars
       \/ /\ terminalState = "nil"
          /\ exited' = TRUE /\ exitCode' = 2 /\ exitReason' = "panic"
          /\ hpc' = "done"
          /\ UNCHANGED echo
    /\ UNCHANGED << config, sideVars, thanked, pc, notified, sigDelivered,
                    sigLost, terminalState, keyVars, regVars, dialVars,
                    localVars, startVars, listenVars, acceptVars >>

\* (variant: the thank-you line is printed whatever the flag says)
printFeedbackMessage_always(flag) == "thanks"

\* printFeedbackMessage, lines 132-138: "Goodbye!", and the thank-you line
\* if successfulConnectionOccured
printFeedbackMessage(flag) == IF flag THEN "thanks" ELSE "goodbye"

\* setupCloseHandler line 53
HandlerPrints ==
    /\ ~exited /\ hpc = "feedback"
    /\ thanked' = printFeedbackMessage(successfulConnectionOccured)
    /\ hpc' = "exit"
    /\ UNCHANGED << config, sideVars, pc, procVars, notified, sigDelivered,
                    sigLost, ttyVars, keyVars, regVars, dialVars, localVars,
                    startVars, listenVars, acceptVars >>

\* setupCloseHandler line 54: os.Exit(0)
HandlerExits ==
    /\ ~exited /\ hpc = "exit"
    /\ exited' = TRUE /\ exitCode' = 0 /\ exitReason' = "signal"
    /\ hpc' = "done"
    /\ UNCHANGED << config, sideVars, thanked, pc, notified, sigDelivered,
                    sigLost, ttyVars, keyVars, regVars, dialVars, localVars,
                    startVars, listenVars, acceptVars >>

\* ------------------------------------------------------ bytes of a relay
\* The two io.Copy loops of handleClient (lines 102 and 113) with the bytes
\* they move.  streams[k][dir] is the direction dir of the k-th accepted
\* connection: what the peer at the source has written, what of it waits to
\* be read, what io.Copy holds between its Read and its Write, and what has
\* been written to the destination.

\* the tunnel is up and the main task is at its first Accept: the state a
\* run reaches with the default hostname, a plain identity, a registration
\* answered with site "a" and code 200, and a first dial that succeeds
InitRelay ==
    /\ config = [SiteID |-> ""]
    /\ pc = "accept"
    /\ exited = FALSE /\ exitCode = 0 /\ exitReason = "none"
    /\ notified = TRUE /\ hpc = "waiting"
    /\ sigDelivered = 0 /\ sigLost = 0
    /\ terminalState = "nil" /\ echo = TRUE
    /\ successfulConnectionOccured = FALSE
    /\ publicKey = 1 /\ publicKeyAuthMethod = 1
    /\ fileReads = 1 /\ prompts = 0
    /\ siteSpecs = [SiteID |-> "a", ResultCode |-> 200]
    /\ glSiteSpecs = ZeroSiteSpecs
    /\ inReconnect = FALSE /\ reconnects = 0
    /\ regCalls = 1 /\ refreshCalls = 0
    /\ regThisCall = 0 /\ refreshThisCall = 0
    /\ firstRegCode = 200 /\ firstSiteID = "a"
    /\ tokenFile = Marshal([AccessToken |-> "a1", RefreshToken |-> "r1"])
    /\ i = 0 /\ sshSuccess = FALSE /\ dialAttempts = 0
    /\ dialUser = "a" /\ dialAuth = 1
    /\ sshClients = << "open" >> /\ serverSSHConnHTTPS = 0
    /\ listeners = << [status |-> "open", client |-> 1] >>
    /\ glListener = 0 /\ listenerHTTPSOverSSH = 1
    /\ listenThisCall = 0
    /\ certManagers = << "a" >>
    /\ proxyListeners = << [status |-> "open", site |-> "a"] >>
    /\ glProxyListener = 0
    /\ proxiedEndpointHTTPS = 1
    /\ lastAccept = "none"
    /\ relays = << >>
    /\ thanked = "none"
    /\ streams = NoStreams
    /\ tokOp = NoOp /\ lastSaved = << >>
    /\ args = StartedArgs /\ cmdpc = "started"
    /\ port = ParseInt(StartedArgs[1]).value

\* what the bytes of a relay leave alone
streamFrame == << config, pc, procVars, sigVars, ttyVars, keyVars, regVars,
                  dialVars, localVars, startVars, listenVars, acceptVars,
                  thanked, tokOp, lastSaved, args, cmdpc, port >>

\* the connection io.Copy reads from / writes to in a direction is open
SrcOpen(r, dir) == IF dir = "c2l" THEN r.clientOpen ELSE r.localOpen
DstOpen(r, dir) == IF dir = "c2l" THEN r.localOpen ELSE r.clientOpen

\* bytes written by all peers so far
RECURSIVE TotalWritten(_)
TotalWritten(k) ==
    IF k = 0 THEN 0
    ELSE Len(streams[k].c2l.written) + Len(streams[k].l2c.written)
         + TotalWritten(k - 1)

\* The peer of the source connection writes one more byte; the byte is named
\* by its connection, its direction and its position.
PeerWrites(k, dir) ==
    /\ ~exited /\ k <= Len(relays)
    /\ SrcOpen(relays[k], dir)
    /\ TotalWritten(MaxConns) < MaxBytes
    /\ LET b == << k, dir, Len(streams[k][dir].written) + 1 >> IN
       streams' = [streams EXCEPT
                     ![k][dir].written = Append(@, b),
                     ![k][dir].pending = Append(@, b)]
    /\ UNCHANGED streamFrame

\* io.Copy, src.Read(buf): some bytes that wait at the source, oldest first
CopyReads(k, dir) ==
    /\ ~exited /\ k <= Len(relays)
    /\ relays[k][dir] = "copying"
    /\ SrcOpen(relays[k], dir)
    /\ streams[k][dir].buf = << >>
    /\ \E n \in 1..Len(streams[k][dir].pending) :
         streams' = [streams EXCEPT
                       ![k][dir].buf = SubSeq(streams[k][dir].pending, 1, n),
                       ![k][dir].pending =
                           SubSeq(@, n + 1, Len(streams[k][dir].pending))]
    /\ UNCHANGED streamFrame

\* (variant: the bytes read are written twice)
Written_twice(delivered, buf) == delivered \o buf \o buf

\* io.Copy, dst.Write(buf[0:nr]): the bytes read go to the destination
Written(delivered, buf) == delivered \o buf

\* the connections of the relay task that moves the bytes of connection k:
\* client is declared in the body of the accept loop (line 382) and local in
\* the task itself (line 396), each task has its own
RelayOf(k) == k

CopyWrites(k, dir) ==
    /\ ~exited /\ k <= Len(relays)
    /\ relays[k][dir] = "copying"
    /\ DstOpen(relays[k], dir)
    /\ streams[k][dir].buf # << >>
    /\ streams' = [streams EXCEPT
                     ![RelayOf(k)][dir].delivered =
                         Written(@, streams[k][dir].buf),
                     ![k][dir].buf = << >>]
    /\ UNCHANGED streamFrame

NextRelayBytes ==
    \/ AcceptConn
    \/ \E k \in 1..Len(relays) : RelayDials(k)
    \/ \E k \in 1..Len(relays) : RelayDialFails(k)
    \/ \E k \in 1..Len(relays), dir \in {"l2c", "c2l"} : PeerWrites(k, dir)
    \/ \E k \in 1..Len(relays), dir \in {"l2c", "c2l"} : CopyReads(k, dir)
    \/ \E k \in 1..Len(relays), dir \in {"l2c", "c2l"} : CopyWrites(k, dir)
    \/ \E k \in 1..Len(relays), dir \in {"l2c", "c2l"} : CopyReturns(k, dir)
    \/ \E k \in 1..Len(relays), dir \in {"l2c", "c2l"} : HandleClientReturns(k, dir)

\* the accept loop and the relay tasks of a tunnel that is up
SpecRelay == InitRelay /\ [][NextRelayBytes]_vars

\* ------------------------------------------------- calls of package token
\* The functions of package token as their callers see them: any of them,
\* in any order, on any content of tokens.json.
AccessTokens  == {"a1", "a2"}
RefreshTokens == {"", "r1", "r2"}
TokenSpecs    == [AccessToken : AccessTokens, RefreshToken : RefreshTokens]
StoredFiles   == {NoFile, Truncated} \cup {Marshal(t) : t \in TokenSpecs}

\* what a call of package token leaves alone
tokenFrame == << config, pc, sigVars, ttyVars, keyVars, glSiteSpecs, regCalls,
                 refreshCalls, regThisCall, refreshThisCall, firstRegCode,
                 firstSiteID, dialVars, localVars, startVars, listenVars,
                 acceptVars, thanked, streams, args, cmdpc, port >>

\* the record kept of a call
TokenCall(op, arg, resp, err, out) ==
    [op |-> op, arg |-> arg, prev |-> tokenFile, prevSaved |-> lastSaved,
     resp |-> resp, err |-> err, out |-> out]

\* a process that is about to call package token
InitToken ==
    /\ InitProcess
    /\ pc = "token"
    /\ tokenFile \in StoredFiles
    /\ args = StartedArgs /\ cmdpc = "started"
    /\ port = ParseInt(StartedArgs[1]).value

CallSaveToken ==
    /\ ~exited /\ pc = "token"
    /\ \E t \in TokenSpecs, w \in WriteOutcomes :
         LET r == SaveToken(tokenFile, t, w) IN
         /\ tokenFile' = r.file
         /\ tokOp' = TokenCall("save", << t >>, << >>, r.err, "")
         /\ lastSaved' = IF r.err = "nil" THEN << t >>
                         ELSE IF r.file = tokenFile THEN lastSaved
                         ELSE << >>
    /\ UNCHANGED << procVars, tokenFrame >>

CallGetAccessToken ==
    /\ ~exited /\ pc = "token"
    /\ LET r == GetAccessToken(tokenFile) IN
         tokOp' = TokenCall("getAccess", << >>, << >>, r.err, r.token)
    /\ UNCHANGED << procVars, tokenFile, lastSaved, tokenFrame >>

CallGetRefreshToken ==
    /\ ~exited /\ pc = "token"
    /\ LET r == GetRefreshToken(tokenFile) IN
         tokOp' = TokenCall("getRefresh", << >>, << >>, r.err, r.token)
    /\ UNCHANGED << procVars, tokenFile, lastSaved, tokenFrame >>

CallRefreshToken ==
    /\ ~exited /\ pc = "token"
    /\ \E resp \in Responses :
         LET r == RefreshToken(tokenFile, resp) IN
         /\ tokenFile' = r.file
         /\ tokOp' = TokenCall("refresh", << >>, << resp >>, r.err, "")
         /\ lastSaved' = IF r.file = tokenFile THEN lastSaved ELSE << >>
    /\ UNCHANGED << procVars, tokenFrame >>

\* logger.Fatal of package token: os.Exit(1)
CallDeleteTokens ==
    /\ ~exited /\ pc = "token"
    /\ \E removeOk \in BOOLEAN :
         LET r == DeleteTokens(tokenFile, removeOk) IN
         /\ tokenFile' = r.file
         /\ lastSaved' = IF r.file = tokenFile THEN lastSaved ELSE << >>
         /\ IF r.fatal
            THEN /\ Fatal("DeleteTokens")
                 /\ tokOp' = TokenCall("delete", << >>, << >>, "fatal", "")
            ELSE /\ UNCHANGED procVars
                 /\ tokOp' = TokenCall("delete", << >>, << >>, "nil", "")
    /\ UNCHANGED tokenFrame

CallIsTokenSaved ==
    /\ ~exited /\ pc = "token"
    /\ \E statOk \in BOOLEAN :
         LET r == IsTokenSaved(tokenFile, statOk) IN
         IF r.fatal
         THEN /\ Fatal("IsTokenSaved")
              /\ tokOp' = TokenCall("isSaved", << >>, << >>, "fatal", "")
         ELSE /\ UNCHANGED procVars
              /\ tokOp' = TokenCall("isSaved", << >>, << >>, "nil", r.saved)
    /\ UNCHANGED << tokenFile, lastSaved, tokenFrame >>

NextToken ==
    \/ CallSaveToken
    \/ CallGetAccessToken
    \/ CallGetRefreshToken
    \/ CallRefreshToken
    \/ CallDeleteTokens
    \/ CallIsTokenSaved

\* package token under any sequence of calls
SpecToken == InitToken /\ [][NextToken]_vars

\* ------------------------------------------------------------- rootCmd
\* what the command-line handling leaves alone
cmdFrame == << config, sigVars, ttyVars, keyVars, regVars, dialVars, localVars,
               startVars, listenVars, acceptVars, thanked, streams, tokOp,
               lastSaved, args >>

\* a process whose arguments cobra is about to hand to rootCmd
InitCmd ==
    /\ InitProcess
    /\ pc = "rootCmd"
    /\ tokenFile \in TokenFiles
    /\ args \in CommandLines /\ cmdpc = "Args"
    /\ port = 0

\* rootCmd.Args, lines 439-448, and Execute, lines 467-471: arguments that
\* are not accepted end the process with os.Exit(1)
CmdArgs ==
    /\ ~exited /\ cmdpc = "Args"
    /\ IF ValidateArgs(args) # ""
       THEN Fatal("args") /\ cmdpc' = "rejected"
       ELSE UNCHANGED procVars /\ cmdpc' = "Run"
    /\ UNCHANGED << pc, port, cmdFrame >>

\* rootCmd.Run, lines 430-438: config.Port = int32(port), loophole.Start(config)
CmdRun ==
    /\ ~exited /\ cmdpc = "Run"
    /\ port' = ParseInt(args[1]).value
    /\ cmdpc' = "started"
    /\ pc' = "start"
    /\ UNCHANGED << procVars, cmdFrame >>

NextCmd == CmdArgs \/ CmdRun

\* the command line up to the call of loophole.Start
SpecCmd == InitCmd /\ [][NextCmd]_vars

\* The main task, the close handler and the signals: every step that changes
\* something else than the progress of a relay.  The relay tasks write no
\* variable of the supervisor; the one way in which they act on the rest of
\* the process, the fatal local dial, is part of this relation.
NextSupervisor ==
    \/ Start
    \/ CheckKey
    \/ ParsePublicKey
    \/ ReadPasswordBegin
    \/ ReadPasswordEnd
    \/ ParseWithPassphrase
    \/ Register
    \/ Refresh
    \/ Reregister
    \/ Dial
    \/ Sleep
    \/ DialFailed
    \/ BuildProxy
    \/ ServeTLSFails
    \/ RemoteListen
    \/ Return
    \/ AcceptEOF
    \/ AcceptError
    \/ AcceptConn
    \/ Reconnect
    \/ \E k \in 1..Len(relays) : RelayDialFails(k)
    \/ HandlerWaits
    \/ Signal
    \/ HandlerChecks
    \/ HandlerRestores
    \/ HandlerPrints
    \/ HandlerExits

\* The progress of the relay tasks
NextRelay ==
    \/ \E k \in 1..Len(relays) : RelayDials(k)
    \/ \E k \in 1..Len(relays), dir \in {"l2c", "c2l"} : CopyReturns(k, dir)
    \/ \E k \in 1..Len(relays), dir \in {"l2c", "c2l"} : HandleClientReturns(k, dir)

Next == NextSupervisor \/ NextRelay

\* the whole process
Spec == Init /\ [][Next]_vars

\* the supervisor with the relay tasks it starts left at their first step
SpecSupervisor == Init /\ [][NextSupervisor]_vars

\* ================================================================ properties

\* C1 - Hostname stickiness: every gateway dial made after the first
\* successful registration uses, as session user name, the site identifier
\* that the first successful registration returned.
HostnameStickiness ==
    dialUser # "none" => dialUser = firstSiteID

\* C2 - Registration is skipped on reconnect: once a registration has
\* succeeded, a later call of generateListener (a reconnect) makes no
\* RegisterSite call.
RegistrationSkippedOnReconnect ==
    inReconnect => regThisCall = 0

\* C3 - Bounded dial retry: within one call of generateListener at most 5
\* gateway dials are made; when all 5 fail the process exits with code 1
\* without having requested a remote listener; the steps after the loop
\* (proxy, remote listener, return) are reached only with a successful dial
\* among attempts 1..5 and an open gateway client; and no step taken while
\* dialing, sleeping or failing makes a registration call.
BoundedDialRetryInv ==
    /\ dialAttempts <= 5
    /\ (exited /\ exitReason = "dial")
          => /\ exitCode = 1
             /\ dialAttempts = 5 /\ ~sshSuccess
             /\ listenThisCall = 0 /\ glListener = 0
    /\ pc = "dialFailed" => (dialAttempts = 5 /\ ~sshSuccess)
    /\ pc \in {"buildProxy", "listen", "return"}
          => /\ sshSuccess /\ dialAttempts \in 1..5
             /\ serverSSHConnHTTPS \in 1..Len(sshClients)
             /\ sshClients[serverSSHConnHTTPS] = "open"
             /\ ~(exited /\ exitReason = "dial")

NoRegistrationWhileDialing ==
    (pc \in {"dial", "sleep", "dialFailed"}) => (regCalls' = regCalls)

BoundedDialRetry ==
    []BoundedDialRetryInv /\ [][NoRegistrationWhileDialing]_vars

\* four failed dials, then a success, and the remote listener is open after
\* the single registration call of the process
BoundedDialRetryWitness ==
    /\ ~exited /\ pc = "return" /\ dialAttempts = 5 /\ sshSuccess
    /\ glListener # 0 /\ regCalls = 1

\* C4 - 401 handling: when the first registration call returns 401, the token
\* refresh is invoked once and the registration retried once; the process
\* never makes a third registration call or a second refresh, and a failed
\* refresh or retry is fatal before any gateway dial.
RefreshAndRetryOnce ==
    firstRegCode = 401
        => /\ regCalls <= 2
           /\ refreshCalls <= 1
           /\ (exited /\ exitReason \in {"refresh", "reregister"})
                 => (exitCode = 1 /\ dialUser = "none")

\* C5 - Fatal registration outcomes never reach the gateway: after a
\* RegisterSite call that failed with a result code other than 401 the
\* process has exited with code 1, no gateway dial and no remote listener
\* request was made in this call of generateListener, and when the failing
\* call was the first one of generateListener no token refresh was invoked.
FatalRegistrationNeverDials ==
    (regThisCall >= 1 /\ glSiteSpecs.ResultCode \in FailureCodes \ {401})
        => /\ exited /\ exitCode = 1
           /\ dialAttempts = 0 /\ serverSSHConnHTTPS = 0
           /\ listenThisCall = 0
           /\ regThisCall = 1 => refreshThisCall = 0

\* the hostname-conflict scenario: the first registration returned 409
FatalRegistrationWitness ==
    /\ exited /\ exitReason = "fatalTaken"
    /\ glSiteSpecs.ResultCode = 409 /\ regCalls = 1

\* C6 - No leak on session drop: when a gateway dial is made in a reconnect
\* every gateway client created by an earlier dial has been closed, and the
\* process never holds two gateway clients that it has not closed.
Unclosed == {h \in 1..Len(sshClients) : sshClients[h] # "closed"}

NoLeakOnSessionDrop ==
    /\ (inReconnect /\ dialAttempts > 0)
          => \A h \in Unclosed : h = serverSSHConnHTTPS
    /\ Cardinality(Unclosed) <= 1

\* C7 - Reconnect leaves the local side untouched: the certificate provider
\* and the local reverse proxy listener are created once per process.
LocalSideBuiltOnce ==
    Len(certManagers) <= 1 /\ Len(proxyListeners) <= 1

\* C8 - Relay closes both ends: when handleClient has returned, the client
\* stream and the local connection are both closed.
RelayClosesBothEnds ==
    \A k \in 1..Len(relays) :
        relays[k].stage = "returned"
            => (~relays[k].clientOpen /\ ~relays[k].localOpen)

\* C9 - Credential singleton: the identity file is read at most once, the
\* passphrase prompt is shown at most once, and every gateway dial uses the
\* AuthMethod of the first load, which is the one the supervisor still holds
\* together with the public key of that load.
CredentialSingleton ==
    /\ fileReads <= 1 /\ prompts <= 1
    /\ dialAuth # NilKey
          => (dialAuth = 1 /\ publicKeyAuthMethod = 1 /\ publicKey = 1)

\* a re-dial in a reconnect, the identity having been loaded with a prompt
CredentialSingletonWitness ==
    /\ inReconnect /\ dialAttempts >= 1 /\ prompts = 1 /\ dialAuth = 1

\* C10 - Signal-driven shutdown from any state: no signal delivered after the
\* close handler was installed is dropped, and a process that was sent a
\* signal exits with code 0.
SignalLeadsToExitZero ==
    /\ sigLost = 0
    /\ (exited /\ sigDelivered > 0) => exitCode = 0
\* C11 - Terminal restoration on interrupt: while the passphrase prompt has
\* the terminal echo off a saved terminal state is in terminalState, and a
\* process that has exited through the close handler has left the terminal
\* with its echo on.
TerminalRestoredOnInterrupt ==
    /\ (echo = FALSE => terminalState = "saved")
    /\ (exited /\ exitReason = "signal" => echo = TRUE)

\* C12 - Thank-you only after a successful connection: the flag is true
\* exactly when a remote Accept has succeeded (one relay record per accepted
\* connection), it goes from false to true by a successful Accept only and
\* never back, and what the close handler prints is the thank-you line if
\* and only if an Accept has succeeded before.
ThankYouFlagInv ==
    /\ successfulConnectionOccured <=> Len(relays) > 0
    /\ thanked = "thanks" => Len(relays) > 0
    /\ (exited /\ exitReason = "signal") => thanked # "none"
ThankYouStep ==
    /\ successfulConnectionOccured => successfulConnectionOccured'
    /\ successfulConnectionOccured' # successfulConnectionOccured
          => lastAccept' = "conn" /\ Len(relays') = Len(relays) + 1
    /\ thanked' # thanked
          => thanked' = IF Len(relays) > 0 THEN "thanks" ELSE "goodbye"
ThankYouOnlyAfterConnection == []ThankYouFlagInv /\ [][ThankYouStep]_vars

\* C12 witness: a signal-driven exit that printed the thank-you line, the
\* connection having been accepted before a reconnect
ThankYouWitness ==
    /\ exited /\ exitReason = "signal" /\ thanked = "thanks"
    /\ reconnects > 0 /\ lastAccept = "eof"

\* C13 - Token refresh monotonicity: after a RefreshToken that returned nil,
\* tokens.json holds the refresh token it held before the call unless the
\* 2xx response carried a non-empty refresh token of its own; a response
\* without one never leaves an empty refresh token in the place of a
\* non-empty one.
IssuedRefreshToken(resp) ==
    resp.kind = "http" /\ resp.status >= 200 /\ resp.status <= 299
    /\ resp.json /\ resp.refresh # ""
RefreshMonotonicity ==
    (tokOp.op = "refresh" /\ tokOp.err = "nil") =>
        /\ tokenFile.present /\ tokenFile.json
        /\ ~IssuedRefreshToken(tokOp.resp[1])
              => tokenFile.refresh_token = tokOp.prev.refresh_token
        /\ tokOp.prev.refresh_token # "" => tokenFile.refresh_token # ""

\* C13 witness: a 200 response without refresh token was saved, the access
\* token is the new one and the refresh token the one stored before
RefreshMonotonicityWitness ==
    /\ tokOp.op = "refresh" /\ tokOp.err = "nil"
    /\ tokOp.resp[1].status = 200 /\ tokOp.resp[1].refresh = ""
    /\ tokOp.prev.access_token = "a1" /\ tokenFile.access_token = "a2"
    /\ tokOp.prev.refresh_token = "r1" /\ tokenFile.refresh_token = "r1"

\* C14 - Refresh error classification: a 4xx response with error
\* expired_token, invalid_grand or access_denied gives a "reinitialize the
\* login" error, a 2xx response is saved and gives nil, any other status
\* gives the "unexpected response" error, and a call that returns an error
\* leaves tokens.json as it was.
RefreshErrorClassification ==
    (/\ tokOp.op = "refresh"
     /\ GetRefreshToken(tokOp.prev).err = "nil"
     /\ tokOp.resp[1].kind = "http") =>
        LET resp == tokOp.resp[1] IN
        /\ (/\ resp.status \in 400..499 /\ resp.json
            /\ resp.error \in {"expired_token", "invalid_grand",
                               "access_denied"})
              => tokOp.err \in {"expired", "denied"}
        /\ (resp.status \in 200..299 /\ resp.json /\ resp.write = "ok")
              => tokOp.err = "nil" /\ tokenFile.access_token = resp.access
        /\ resp.status \notin (200..299) \cup (400..499)
              => tokOp.err = "unexpected"
        /\ tokOp.err # "nil" => tokenFile = tokOp.prev

\* C18 - Token delete on an absent file: DeleteTokens returns when no token
\* file exists, it ends the process only when the file existed, and after
\* it has returned no token file exists (IsTokenSaved is false).
DeleteOnAbsentFile ==
    tokOp.op = "delete" =>
        /\ ~tokOp.prev.present => tokOp.err = "nil" /\ ~exited
        /\ tokOp.err = "fatal" => tokOp.prev.present
        /\ tokOp.err = "nil" => ~IsTokenSaved(tokenFile, TRUE).fatal
                                /\ IsTokenSaved(tokenFile, TRUE).saved = "false"

PortArgument(a) ==
    /\ Len(a) >= 1
    /\ ParseInt(a[1]).err = "nil"
    /\ ParseInt(a[1]).value \in 1..65535
PortValidation ==
    /\ cmdpc = "started" => PortArgument(args) /\ port = ParseInt(args[1]).value
                            /\ port \in 1..65535
    /\ (cmdpc # "Args" /\ ~PortArgument(args))
          => exited /\ exitCode = 1 /\ pc = "rootCmd"

\* C16 - Session drop is recoverable: a process that is in the call of
\* generateListener made after an EOF of Accept exits from that call only
\* because the five dials failed or the remote listener was refused (the
\* close handler, a failing proxy server and a failing relay dial are other
\* tasks and end the process at any time).
SessionDropRecoverable ==
    (exited /\ inReconnect /\ pc \notin {"accept", "reconnect"})
        => exitReason \in {"dial", "remoteListen",
                           "signal", "panic", "serveTLS", "localDial"}

\* C20 - Non-EOF accept errors change nothing: the step in which Accept
\* returns an error other than EOF leaves the supervisor at the Accept with
\* the same remote listener, gateway transport and proxied endpoint, closes
\* nothing, registers nothing, dials nothing, starts no relay and leaves the
\* successful-connection flag as it is.
AcceptErrorStep ==
    (lastAccept' = "error" /\ lastAccept # "error") =>
        /\ pc = "accept" /\ pc' = "accept"
        /\ UNCHANGED << listenerHTTPSOverSSH, listeners, serverSSHConnHTTPS,
                        sshClients, proxiedEndpointHTTPS, proxyListeners,
                        certManagers, siteSpecs, reconnects, regCalls,
                        refreshCalls, dialAttempts, dialUser, relays,
                        successfulConnectionOccured, procVars >>
NonEOFAcceptErrorChangesNothing == [][AcceptErrorStep]_vars

\* C20 witness: Accept has returned such an error before any connection was
\* accepted, the supervisor is at the Accept on the open remote listener
NonEOFAcceptErrorWitness ==
    /\ lastAccept = "error" /\ pc = "accept" /\ ~exited
    /\ ~successfulConnectionOccured /\ relays = << >>
    /\ listeners[listenerHTTPSOverSSH].status = "open"
    /\ sshClients[listeners[listenerHTTPSOverSSH].client] = "open"

\* C17 - Relay fidelity: in each direction of each accepted connection the
\* bytes delivered to the destination are a prefix of the bytes the peer
\* wrote at the source, in the same order; while the copy runs every byte
\* written is delivered, held by the copy or waiting to be read, once each;
\* and every byte delivered on a connection was written on that connection.
IsPrefix(p, q) == Len(p) <= Len(q) /\ p = SubSeq(q, 1, Len(p))
StartupStepOrder ==
    /\ dialAttempts > 0 => (regThisCall > 0 \/ SiteSpecsUsed(glSiteSpecs))
    /\ glListener # 0 => sshSuccess
    /\ glProxyListener # 0 => (sshSuccess /\ glListener # 0)
    /\ pc = "accept" => (listenerHTTPSOverSSH # 0 /\ proxiedEndpointHTTPS # 0)

\* C22 - Relay tasks terminate: once handleClient has returned no copy task
\* of the connection is left at its send on chDone, which nothing receives
\* from any more.
RelayTasksTerminate ==
    \A k \in 1..Len(relays) :
        relays[k].stage = "returned"
            => relays[k].l2c # "sending" /\ relays[k].c2l # "sending"

\* C23 - Refresh reports ok only after saving: a RefreshToken that returned
\* nil was answered with a 2xx status and has written the new document, and
\* a RefreshToken answered with a 4xx status returned an error.
RefreshOkOnlyAfterSaving ==
    (/\ tokOp.op = "refresh"
     /\ GetRefreshToken(tokOp.prev).err = "nil"
     /\ tokOp.resp[1].kind = "http") =>
        LET resp == tokOp.resp[1] IN
        /\ tokOp.err = "nil"
              => /\ resp.status \in 200..299
                 /\ tokenFile.json /\ tokenFile.access_token = resp.access
        /\ resp.status \in 400..499 => tokOp.err # "nil"

\* C24 - Refresh never changes the stored refresh token: after any call of
\* RefreshToken tokens.json holds the refresh token it held before, and
\* anything else in it has changed only if the status was 2xx.
RefreshKeepsRefreshToken ==
    (tokOp.op = "refresh" /\ GetRefreshToken(tokOp.prev).err = "nil") =>
        /\ GetRefreshToken(tokenFile).err = "nil"
        /\ GetRefreshToken(tokenFile).token = GetRefreshToken(tokOp.prev).token
        /\ tokenFile # tokOp.prev
              => /\ tokOp.resp[1].kind = "http"
                 /\ tokOp.resp[1].status \in 200..299

\* C25 - Relay target is fixed and alive: a relay task that is about to dial
\* the local proxy dials the listener bound by the first call of
\* generateListener, that listener is open, and its certificate manager is
\* the one of the site identifier last presented to the gateway.
RelayTargetFixedAndAlive ==
    \A k \in 1..Len(relays) :
        relays[k].stage = "dial"
            => /\ proxiedEndpointHTTPS = 1
               /\ proxyListeners[proxiedEndpointHTTPS].status = "open"
               /\ proxyListeners[proxiedEndpointHTTPS].site = dialUser

====
